---------------------------- MODULE Spec2Model ----------------------------
(***************************************************************************)
(* Golf_GUI/integrated_golf_gui_r0/golf_data_core.py: FrameProcessor (the  *)
(* raw-frame cache, the per-filter dynamics cache, the filter selection,   *)
(* the RenderConfig setters, get_frame_range), the row-count checks of     *)
(* MatlabDataLoader, and the mesh and rotation functions of GeometryUtils. *)
(*                                                                         *)
(* Representation.  A 3-vector is a record [fin, c]: fin = FALSE is a      *)
(* vector holding NaN/Inf, c its three integer components in units of      *)
(* 1e-4 (the velocity threshold of the face-normal computation is then     *)
(* one unit).  A unit vector v/|v| is carried as the integer vector v      *)
(* divided by the gcd of its components, a length as its square.           *)
(* Python's 0-based arrays are functions on 0..n-1.                        *)
(*                                                                         *)
(* The class body defines get_frame_data twice.  Both definitions are      *)
(* modelled; Spec is the class as Python builds it, where the name is      *)
(* bound to the later definition, and SpecFirst is the class with that     *)
(* later definition removed.  The functions imported from                  *)
(* golf_inverse_dynamics are not part of the file and are modelled as      *)
(* total pure functions of the position timeline.                          *)
(*                                                                         *)
(* Specifications.  Spec: the methods of a constructed FrameProcessor.     *)
(* SpecRange: single frames and frame ranges.  SpecLoad: the files, the    *)
(* loader, the constructor.  SpecGeometry: the functions that compute from *)
(* their arguments alone, one call per behaviour; the rotation matrix is   *)
(* computed in exact rational arithmetic.                                  *)
(***************************************************************************)
EXTENDS Integers, Sequences, FiniteSets, TLC

\* ------------------------------------------------------------------ bounds
\* Largest row count of a dataset.
MaxFrames == 3
\* Cap on the number of calculate_inverse_dynamics invocations followed.
MaxCalls == 2

\* Smallest row count a loaded dataset has (_validate_dataset_consistency).
MinRows == 2

\* ----------------------------------------------------------------- vectors
Vec(x, y, z) == [fin |-> TRUE, c |-> <<x, y, z>>]
NaNVec == [fin |-> FALSE, c |-> <<0, 0, 0>>]
\* np.zeros(3, dtype=np.float32)
Zeros3 == Vec(0, 0, 0)

Abs(n) == IF n < 0 THEN -n ELSE n

RECURSIVE GCD(_, _)
GCD(a, b) == IF b = 0 THEN a ELSE GCD(b, a % b)

VSub(a, b) ==
    IF a.fin /\ b.fin
    THEN Vec(a.c[1] - b.c[1], a.c[2] - b.c[2], a.c[3] - b.c[3])
    ELSE NaNVec

\* np.cross on finite vectors
Cross(a, b) ==
    Vec(a.c[2] * b.c[3] - a.c[3] * b.c[2],
        a.c[3] * b.c[1] - a.c[1] * b.c[3],
        a.c[1] * b.c[2] - a.c[2] * b.c[1])

\* the square of np.linalg.norm
NormSq(a) == a.c[1] * a.c[1] + a.c[2] * a.c[2] + a.c[3] * a.c[3]

\* v / np.linalg.norm(v) for a finite non-zero v: the direction of v
Dir(a) ==
    LET g == GCD(Abs(a.c[1]), GCD(Abs(a.c[2]), Abs(a.c[3])))
    IN  Vec(a.c[1] \div g, a.c[2] \div g, a.c[3] \div g)

\* ---------------------------------------------------------------- datasets
DatasetNames == {"BASEQ", "ZTCFQ", "DELTAQ"}

FilterNames == {"None", "Butterworth", "Savitzky-Golay"}
\* A name outside the closed set, as a caller may pass it.
UnknownFilter == "Kalman"

VARIABLES
    rows,            \* len(df) of each of the three DataFrames
    num_frames,      \* self.num_frames
    current_filter,  \* self.current_filter
    dynamics_cache,  \* self.dynamics_cache: filter name -> {'force','torque'}
    raw_data_cache,  \* self.raw_data_cache: frame index -> FrameData
    config,          \* self.config (RenderConfig), the fields the setters touch
    filter_params,   \* self.filter_params; <<>> while the attribute is unset
    calls,           \* invocations of calculate_inverse_dynamics so far
    held,            \* snapshots handed to the caller: index -> value at return
    last,            \* the last call made: [op, arg]
    ret              \* how the last call ended

vars == <<rows, num_frames, current_filter, dynamics_cache,
          raw_data_cache, config, filter_params, calls, held, last, ret>>

\* The cell df.at[row, col] of a dataset.  The clubhead follows a fixed
\* curved path, so that the three filters give three timelines; the first
\* Butt sample of BASEQ is non-finite.
Cell(ds, col, r) ==
    IF ds = "BASEQ" /\ col = "Butt" /\ r = 0 THEN NaNVec
    ELSE CASE col = "Clubhead" -> Vec(4 * r * r, 0, 10)
           [] col = "Butt" -> Vec(0, 0, 0)
           [] col = "MidPoint" -> Vec(2 * r * r, 0, 5)
           [] col = "TotalHandForceGlobal" ->
                 Vec(r + 1, IF ds = "ZTCFQ" THEN 1 ELSE 0,
                            IF ds = "DELTAQ" THEN 1 ELSE 0)
           [] col = "EquivalentMidpointCoupleGlobal" ->
                 Vec(0, r + 1, IF ds = "BASEQ" THEN 0 ELSE 1)
           [] OTHER -> Vec(r, 1, 0)

\* `col_name in df`: DELTAQ was loaded without its couple column.
HasColumn(ds, col) ==
    ~(ds = "DELTAQ" /\ col = "EquivalentMidpointCoupleGlobal")

\* isinstance(val, np.ndarray): BASEQ holds RightShoulder as scalars.
CellIsArray(ds, col) == ~(ds = "BASEQ" /\ col = "RightShoulder")

\* FrameProcessor.get_column_data: zeros for a missing column, a row past
\* the dataset or a cell that is no array.
get_column_data(ds, col, row_idx) ==
    IF HasColumn(ds, col) /\ row_idx < rows[ds] /\ CellIsArray(ds, col)
    THEN Cell(ds, col, row_idx)
    ELSE Zeros3

\* self.time_vector[i], in units of 0.001 s
time_vector(i) == i

\* --------------------------------------------------------------- FrameData
\* d[k] = v on a Python dict
Put(d, k, v) == [x \in (DOMAIN d) \cup {k} |-> IF x = k THEN v ELSE d[x]]

\* FrameData._calculate_shaft_properties: <<shaft_vector, shaft_length^2>>
calculate_shaft_properties(butt, clubhead) ==
    IF butt.fin /\ clubhead.fin
    THEN <<VSub(clubhead, butt), NormSq(VSub(clubhead, butt))>>
    ELSE <<Vec(0, 0, 10000), 10000 * 10000>>

\* FrameData.is_valid
is_valid(fd) == fd.butt.fin /\ fd.clubhead.fin /\ fd.midpoint.fin

\* FrameData.shaft_direction: shaft_length > 1e-6 is, for whole units of
\* 1e-4, a non-zero shaft vector.
shaft_direction(fd) ==
    IF fd.shaft_length > 0 THEN Dir(fd.shaft_vector) ELSE Vec(0, 0, 1)

\* _calculate_face_normal_jit with 0.9 for the 0.99 of line 536
calculate_face_normal_jit_low_threshold(current_clubhead, previous_clubhead, shaft) ==
    LET velocity == VSub(current_clubhead, previous_clubhead)
        cross_product == Cross(shaft, velocity)
        face_normal_temp == Cross(Cross(velocity, shaft), shaft)
        fallback == Vec(-shaft.c[2], shaft.c[1], 0)
    IN  IF /\ NormSq(velocity) > 1
           /\ NormSq(cross_product) > 0
           /\ NormSq(face_normal_temp) > 0
        THEN Dir(face_normal_temp)
        ELSE IF /\ 100 * shaft.c[3] * shaft.c[3] < 81 * NormSq(shaft)
                /\ NormSq(fallback) > 0
             THEN Dir(fallback)
             ELSE Vec(1, 0, 0)

\* FrameProcessor._calculate_face_normal_jit on finite inputs;
\* shaft is a direction, the result a direction.
calculate_face_normal_jit(current_clubhead, previous_clubhead, shaft) ==
    LET velocity == VSub(current_clubhead, previous_clubhead)
        cross_product == Cross(shaft, velocity)
        face_normal_temp == Cross(Cross(velocity, shaft), shaft)
        fallback == Vec(-shaft.c[2], shaft.c[1], 0)
    IN  IF /\ NormSq(velocity) > 1            \* |velocity| > 1e-4
           /\ NormSq(cross_product) > 0
           /\ NormSq(face_normal_temp) > 0
        THEN Dir(face_normal_temp)
        ELSE IF /\ 10000 * shaft.c[3] * shaft.c[3] < 9801 * NormSq(shaft)
                /\ NormSq(fallback) > 0
             THEN Dir(fallback)
             ELSE Vec(1, 0, 0)

\* FrameProcessor._calculate_face_normal
calculate_face_normal(current_clubhead, previous_clubhead, shaft) ==
    IF current_clubhead.fin /\ previous_clubhead.fin /\ shaft.fin
    THEN calculate_face_normal_jit(current_clubhead, previous_clubhead, shaft)
    ELSE Vec(1, 0, 0)

\* FrameProcessor._process_raw_frame
process_raw_frame(frame_idx) ==
    LET butt == get_column_data("BASEQ", "Butt", frame_idx)
        clubhead == get_column_data("BASEQ", "Clubhead", frame_idx)
        shaft == calculate_shaft_properties(butt, clubhead)
        fd0 == [frame_idx |-> frame_idx,
                time |-> time_vector(frame_idx),
                butt |-> butt,
                clubhead |-> clubhead,
                midpoint |-> get_column_data("BASEQ", "MidPoint", frame_idx),
                left_wrist |-> get_column_data("BASEQ", "LeftWrist", frame_idx),
                left_elbow |-> get_column_data("BASEQ", "LeftElbow", frame_idx),
                left_shoulder |->
                    get_column_data("BASEQ", "LeftShoulder", frame_idx),
                right_wrist |->
                    get_column_data("BASEQ", "RightWrist", frame_idx),
                right_elbow |->
                    get_column_data("BASEQ", "RightElbow", frame_idx),
                right_shoulder |->
                    get_column_data("BASEQ", "RightShoulder", frame_idx),
                hub |-> get_column_data("BASEQ", "Hub", frame_idx),
                forces |-> [n \in DatasetNames |->
                    get_column_data(n, "TotalHandForceGlobal", frame_idx)],
                torques |-> [n \in DatasetNames |->
                    get_column_data(n, "EquivalentMidpointCoupleGlobal",
                                    frame_idx)],
                shaft_vector |-> shaft[1],
                shaft_length |-> shaft[2],
                face_normal |-> Vec(1, 0, 0)]
    IN  IF frame_idx > 0
        THEN [fd0 EXCEPT !.face_normal =
                 calculate_face_normal(
                     fd0.clubhead,
                     get_column_data("BASEQ", "Clubhead", frame_idx - 1),
                     shaft_direction(fd0))]
        ELSE fd0

\* ------------------------------------------- golf_inverse_dynamics (external)
\* One axis of the position timeline: a function on 0..n-1.
Axis(pos, n, a) == [k \in 0..n-1 |-> pos[k].c[a]]

\* butter_lowpass_filter: a causal low-pass, y[k] = (x[k] + y[k-1]) / 2.
RECURSIVE LowPassAt(_, _)
LowPassAt(x, k) == IF k = 0 THEN x[0] ELSE (x[k] + LowPassAt(x, k - 1)) \div 2

butter_lowpass_filter(x, n) == [k \in 0..n-1 |-> LowPassAt(x, k)]

\* savitzky_golay_filter: polynomial smoothing over a centred window.
savitzky_golay_filter(x, n) ==
    [k \in 0..n-1 |->
        (x[IF k = 0 THEN 0 ELSE k - 1] + x[k]
           + x[IF k = n - 1 THEN k ELSE k + 1]) \div 3]

\* calculate_inverse_dynamics(position, orientation, time): one force and
\* one torque per frame, a pure function of the position timeline.
calculate_inverse_dynamics(pos, n) ==
    LET force == [k \in 0..n-1 |->
                     VSub(pos[IF k = n - 1 THEN k ELSE k + 1],
                          pos[IF k = 0 THEN 0 ELSE k - 1])]
    IN  [force |-> force,
         torque |-> [k \in 0..n-1 |-> Cross(pos[k], force[k])]]

\* ---------------------------------------------------------- FrameProcessor
\* Every method below takes the instance (self: the mutable attributes, and
\* the count of calculate_inverse_dynamics invocations) and gives the
\* instance after the call.
EmptyDict == [x \in {} |-> 0]

\* max(0, min(frame_idx, self.num_frames - 1))
clamp(frame_idx) ==
    IF frame_idx < 0 THEN 0
    ELSE IF frame_idx > num_frames - 1 THEN num_frames - 1
    ELSE frame_idx

\* lines 429-435 of _calculate_dynamics_for_filter: the filter of one axis;
\* a name that is neither branch leaves the axis as it is.
apply_filter(filter_type, x, n) ==
    IF filter_type = "None" THEN x
    ELSE IF filter_type = "Butterworth" THEN butter_lowpass_filter(x, n)
    ELSE IF filter_type = "Savitzky-Golay" THEN savitzky_golay_filter(x, n)
    ELSE x

\* The value _calculate_dynamics_for_filter computes under a filter name.
dynamics_for_filter(filter_type) ==
    LET n == num_frames
        position_data ==
            [i \in 0..n-1 |-> get_column_data("BASEQ", "Clubhead", i)]
        filtered ==
            [i \in 0..n-1 |->
                Vec(apply_filter(filter_type, Axis(position_data, n, 1), n)[i],
                    apply_filter(filter_type, Axis(position_data, n, 2), n)[i],
                    apply_filter(filter_type, Axis(position_data, n, 3), n)[i])]
    IN  calculate_inverse_dynamics(filtered, n)

\* FrameProcessor._calculate_dynamics_for_filter
calculate_dynamics_for_filter(self) ==
    [self EXCEPT
        !.dynamics_cache =
            Put(@, self.current_filter,
                dynamics_for_filter(self.current_filter)),
        !.calls = @ + 1]

\* FrameProcessor.invalidate_cache
invalidate_cache(self) == [self EXCEPT !.dynamics_cache = EmptyDict]

\* set_filter without the invalidation of line 391
set_filter_keeps_cache(self, filter_type) ==
    [self EXCEPT !.current_filter = filter_type]

\* set_filter without the comparison of line 389
set_filter_always_invalidates(self, filter_type) ==
    invalidate_cache([self EXCEPT !.current_filter = filter_type])

\* FrameProcessor.set_filter
set_filter(self, filter_type) ==
    IF filter_type # self.current_filter
    THEN invalidate_cache([self EXCEPT !.current_filter = filter_type])
    ELSE self

\* FrameProcessor.set_filter_type
set_filter_type(self, filter_type) == set_filter(self, filter_type)

\* FrameProcessor.set_filter_param
set_filter_param(self, param_name, value) ==
    invalidate_cache([self EXCEPT !.filter_params = Put(@, param_name, value)])

\* FrameProcessor.set_vector_visibility
set_vector_visibility(self, vector_type, visible) ==
    IF vector_type = "force"
    THEN [self EXCEPT !.config = Put(@, "show_calculated_force", visible)]
    ELSE IF vector_type = "torque"
    THEN [self EXCEPT !.config = Put(@, "show_calculated_torque", visible)]
    ELSE self

\* set_vector_scale ending, like set_filter_param, in invalidate_cache
set_vector_scale_invalidates(self, vector_type, scale) ==
    invalidate_cache(
        [self EXCEPT !.config = Put(@, "calculated_vector_scale", scale)])

\* FrameProcessor.set_vector_scale (the last two branches create attributes
\* the RenderConfig dataclass does not declare)
set_vector_scale(self, vector_type, scale) ==
    IF vector_type = "all"
    THEN [self EXCEPT !.config = Put(@, "calculated_vector_scale", scale)]
    ELSE IF vector_type = "force"
    THEN [self EXCEPT !.config = Put(@, "force_vector_scale", scale)]
    ELSE IF vector_type = "torque"
    THEN [self EXCEPT !.config = Put(@, "torque_vector_scale", scale)]
    ELSE self

\* How a call ends: a returned value or a raised exception.
Returned(v) == [kind |-> "returned", value |-> v]
Raised(exc) == [kind |-> "raised", value |-> exc]

\* FrameProcessor.get_frame_data as first defined (lines 398-416):
\* <<instance after, outcome>>.  The FrameData object of the raw cache is
\* itself overlaid and returned.
get_frame_data_first(self, frame_idx) ==
    LET idx == clamp(frame_idx)
        raw1 == IF idx \in DOMAIN self.raw_data_cache
                THEN self.raw_data_cache
                ELSE Put(self.raw_data_cache, idx, process_raw_frame(idx))
        self1 == IF self.current_filter \notin DOMAIN self.dynamics_cache
                 THEN calculate_dynamics_for_filter(self)
                 ELSE self
        dynamics == self1.dynamics_cache[self.current_filter]
        frame_data ==
            [raw1[idx] EXCEPT
                !.forces = Put(@, "calculated", dynamics.force[idx]),
                !.torques = Put(@, "calculated", dynamics.torque[idx])]
    IN  <<[self1 EXCEPT !.raw_data_cache = Put(raw1, idx, frame_data)],
          Returned(frame_data)>>

\* FrameProcessor.get_frame_data as the class holds it: the definition at
\* lines 552-564 replaces the first one when the class body is executed.
\* It clamps the index and then reads self.processed_data, an attribute
\* that nothing creates.
get_frame_data(self, frame_idx) == <<self, Raised("AttributeError")>>

\* ------------------------------------------------------------------ inputs
Indices == -1..MaxFrames
FilterArgs == FilterNames \cup {UnknownFilter}
VectorTypes == {"all", "force", "torque", "moment"}
Scales == {2}
ParamNames == {"cutoff"}
ParamValues == {50}

Call(op, arg) == [op |-> op, arg |-> arg]

\* RenderConfig(): the fields the setters of FrameProcessor write.
RenderConfigDefaults ==
    [show_calculated_force |-> TRUE,
     show_calculated_torque |-> TRUE,
     calculated_vector_scale |-> 1]

\* Row counts of the three loaded datasets: all equal, or BASEQ longer than
\* the other two.
RowCounts ==
    {[d \in DatasetNames |-> n] : n \in MinRows..MaxFrames} \cup
    {[d \in DatasetNames |-> IF d = "BASEQ" THEN MaxFrames ELSE MinRows]}

\* FrameProcessor.__init__ over three loaded datasets
Init ==
    /\ rows \in RowCounts
    /\ num_frames = rows["BASEQ"]
    /\ current_filter = "None"
    /\ dynamics_cache = EmptyDict
    /\ raw_data_cache = EmptyDict
    /\ config = RenderConfigDefaults
    /\ filter_params = EmptyDict
    /\ calls = 0
    /\ held = EmptyDict
    /\ last = Call("__init__", "")
    /\ ret = Returned("None")

data == <<rows, num_frames>>

\* The instance in the current state.
Self ==
    [current_filter |-> current_filter,
     dynamics_cache |-> dynamics_cache,
     raw_data_cache |-> raw_data_cache,
     config |-> config,
     filter_params |-> filter_params,
     calls |-> calls]

\* The call op(arg) takes the instance to s and ends with outcome r.
Becomes(s, op, arg, r) ==
    /\ s.calls <= MaxCalls
    /\ current_filter' = s.current_filter
    /\ dynamics_cache' = s.dynamics_cache
    /\ raw_data_cache' = s.raw_data_cache
    /\ config' = s.config
    /\ filter_params' = s.filter_params
    /\ calls' = s.calls
    /\ last' = Call(op, arg)
    /\ ret' = r
    /\ UNCHANGED data

\* The caller keeps the first snapshot a get_frame_data call returns for an
\* index, as it was when returned.
Keep(frame_idx, r) ==
    IF r.kind = "returned" /\ clamp(frame_idx) \notin DOMAIN held
    THEN Put(held, clamp(frame_idx),
             [filter |-> current_filter, value |-> r.value])
    ELSE held

GetFrameData ==
    \E i \in Indices :
        LET c == get_frame_data(Self, i)
        IN  /\ Becomes(c[1], "get_frame_data", i, c[2])
            /\ held' = Keep(i, c[2])

SetFilter ==
    \E f \in FilterArgs :
        /\ Becomes(set_filter(Self, f), "set_filter", f, Returned("None"))
        /\ UNCHANGED held

SetFilterType ==
    \E f \in FilterArgs :
        /\ Becomes(set_filter_type(Self, f), "set_filter_type", f,
                   Returned("None"))
        /\ UNCHANGED held

SetFilterParam ==
    \E n \in ParamNames, v \in ParamValues :
        /\ Becomes(set_filter_param(Self, n, v), "set_filter_param",
                   <<n, v>>, Returned("None"))
        /\ UNCHANGED held

InvalidateCache ==
    /\ Becomes(invalidate_cache(Self), "invalidate_cache", "",
               Returned("None"))
    /\ UNCHANGED held

SetVectorVisibility ==
    \E t \in VectorTypes \ {"all"}, b \in BOOLEAN :
        /\ Becomes(set_vector_visibility(Self, t, b), "set_vector_visibility",
                   <<t, b>>, Returned("None"))
        /\ UNCHANGED held

SetVectorScale ==
    \E t \in VectorTypes, x \in Scales :
        /\ Becomes(set_vector_scale(Self, t, x), "set_vector_scale",
                   <<t, x>>, Returned("None"))
        /\ UNCHANGED held

\* _calculate_dynamics_for_filter called on the instance.  Inside the class
\* only the replaced get_frame_data calls it.
CalculateDynamicsForFilter ==
    /\ Becomes(calculate_dynamics_for_filter(Self),
               "_calculate_dynamics_for_filter", "", Returned("None"))
    /\ UNCHANGED held

Next ==
    \/ GetFrameData
    \/ SetFilter
    \/ SetFilterType
    \/ SetFilterParam
    \/ InvalidateCache
    \/ SetVectorVisibility
    \/ SetVectorScale
    \/ CalculateDynamicsForFilter

Spec == Init /\ [][Next]_vars

\* The class with its second get_frame_data removed: the first definition
\* serves the calls.
GetFrameDataFirst ==
    \E i \in Indices :
        LET c == get_frame_data_first(Self, i)
        IN  /\ Becomes(c[1], "get_frame_data", i, c[2])
            /\ held' = Keep(i, c[2])

NextFirst ==
    \/ GetFrameDataFirst
    \/ SetFilter
    \/ SetFilterParam

SpecFirst == Init /\ [][NextFirst]_vars

\* --------------------------------------------------------- get_frame_range
\* The loop of lines 572-573 from index i on: <<instance after, outcome>>;
\* an exception of get_frame_data leaves the loop and the method.
RECURSIVE FrameRangeFrom(_, _, _, _)
FrameRangeFrom(self, i, end_frame, frames) ==
    IF i > end_frame THEN <<self, Returned(frames)>>
    ELSE LET c == get_frame_data(self, i)
         IN  IF c[2].kind = "raised" THEN c
             ELSE FrameRangeFrom(c[1], i + 1, end_frame,
                                 Append(frames, c[2].value))

\* FrameProcessor.get_frame_range: start is bounded below only, end above
\* only.
get_frame_range(self, start_frame, end_frame) ==
    LET start == IF start_frame < 0 THEN 0 ELSE start_frame
        end == IF end_frame > num_frames - 1 THEN num_frames - 1
               ELSE end_frame
    IN  FrameRangeFrom(self, start, end, <<>>)

\* The caller keeps the snapshots of a returned list, as Keep does for one.
KeepRange(r) ==
    IF r.kind # "returned" THEN held
    ELSE LET new == {k \in 1..Len(r.value) :
                        r.value[k].frame_idx \notin DOMAIN held}
         IN  [x \in (DOMAIN held) \cup {r.value[k].frame_idx : k \in new} |->
                 IF x \in DOMAIN held THEN held[x]
                 ELSE [filter |-> current_filter,
                       value |-> r.value[CHOOSE k \in new :
                                            r.value[k].frame_idx = x]]]

GetFrameRange ==
    \E start_frame \in Indices, end_frame \in Indices :
        LET c == get_frame_range(Self, start_frame, end_frame)
        IN  /\ Becomes(c[1], "get_frame_range", <<start_frame, end_frame>>,
                       c[2])
            /\ held' = KeepRange(c[2])

NextRange ==
    \/ GetFrameRange
    \/ GetFrameData
    \/ SetFilter
    \/ CalculateDynamicsForFilter

\* The FrameProcessor serving single frames and ranges.
SpecRange == Init /\ [][NextRange]_vars

\* --------------------------------------------------------- MatlabDataLoader
\* The smallest value of a dict of frame counts: min(frame_counts.values()).
MinCount(frame_counts) ==
    CHOOSE m \in {frame_counts[d] : d \in DOMAIN frame_counts} :
        \A d \in DOMAIN frame_counts : m <= frame_counts[d]

\* MatlabDataLoader._validate_dataframe, its check of the row count.
validate_dataframe(num_rows) ==
    IF num_rows = 0 THEN Raised("ValueError") ELSE Returned("None")

\* _validate_dataset_consistency looking at the BASEQ count alone
validate_dataset_consistency_baseq_only(frame_counts) ==
    IF frame_counts["BASEQ"] < MinRows
    THEN Raised("ValueError")
    ELSE Returned(IF Cardinality({frame_counts[d] : d \in DOMAIN frame_counts})
                        > 1
                  THEN {"Inconsistent frame counts"} ELSE {})

\* MatlabDataLoader._validate_dataset_consistency: the warnings it issues,
\* or the error it raises.
validate_dataset_consistency(frame_counts) ==
    IF MinCount(frame_counts) < MinRows
    THEN Raised("ValueError")
    ELSE Returned(IF Cardinality({frame_counts[d] : d \in DOMAIN frame_counts})
                        > 1
                  THEN {"Inconsistent frame counts"} ELSE {})

\* MatlabDataLoader.load_datasets over three files holding file_rows[d] rows:
\* an error of a single file is re-raised as RuntimeError (line 191), the
\* error of the consistency check is raised as it is.
load_datasets(file_rows) ==
    IF \E d \in DatasetNames : validate_dataframe(file_rows[d]).kind = "raised"
    THEN Raised("RuntimeError")
    ELSE LET v == validate_dataset_consistency(file_rows)
         IN  IF v.kind = "raised" THEN v
             ELSE Returned([datasets |-> file_rows, warnings |-> v.value])

\* Row counts of three files on disk.
FileRowCounts == [DatasetNames -> 0..MaxFrames]

\* Before anything is loaded: no FrameProcessor exists (num_frames = 0 stands
\* for the absent instance).
InitLoad ==
    /\ rows \in FileRowCounts
    /\ num_frames = 0
    /\ current_filter = "None"
    /\ dynamics_cache = EmptyDict
    /\ raw_data_cache = EmptyDict
    /\ config = RenderConfigDefaults
    /\ filter_params = EmptyDict
    /\ calls = 0
    /\ held = EmptyDict
    /\ last = Call("start", "")
    /\ ret = Returned("None")

\* A FrameProcessor has been constructed.
Constructed == last.op \notin {"start", "load_datasets"}

\* loader.load_datasets(...)
LoadDatasets ==
    /\ last.op = "start"
    /\ last' = Call("load_datasets", rows)
    /\ ret' = load_datasets(rows)
    /\ UNCHANGED <<rows, num_frames, current_filter, dynamics_cache,
                   raw_data_cache, config, filter_params, calls, held>>

\* FrameProcessor(datasets, config) over the datasets load_datasets returned.
Construct ==
    /\ last.op = "load_datasets"
    /\ ret.kind = "returned"
    /\ num_frames' = ret.value.datasets["BASEQ"]
    /\ last' = Call("__init__", ret.value.datasets)
    /\ ret' = Returned("None")
    /\ UNCHANGED <<rows, current_filter, dynamics_cache, raw_data_cache,
                   config, filter_params, calls, held>>

NextLoad ==
    \/ LoadDatasets
    \/ Construct
    \/ (Constructed /\ GetFrameData)
    \/ (Constructed /\ SetFilter)

\* The program from the files on: load, construct, use.
SpecLoad == InitLoad /\ [][NextLoad]_vars

\* ----------------------------------------------------------- GeometryUtils
\* Largest segment count of a mesh.
MaxSegments == 4

\* A mesh is the triple the factories return: the flat vertices array (three
\* coordinates per vertex), the flat normals array and the flat indices
\* array.  A coordinate is kept as the term the code computes: the
\* trigonometric factor, the angle as the fraction <<i, segments>> of a turn
\* (of half a turn for a latitude), and the length that scales it.
Coord(f, angle, scale) == [f |-> f, angle |-> angle, scale |-> scale]
Const(v) == Coord("const", <<0, 1>>, v)

\* len(vertices) // 3
VertexCount(vertices) == Len(vertices) \div 3

\* One ring of the loop at lines 659-669 (and 732-742): the bottom and the
\* top vertex of ring i, as <<vertices, normals>>.
RingPair(i, segments, radius, height) ==
    LET x == Coord("cos", <<i, segments>>, radius)
        z == Coord("sin", <<i, segments>>, radius)
        nx == Coord("cos", <<i, segments>>, 1)
        nz == Coord("sin", <<i, segments>>, 1)
    IN  <<<<x, Const(0), z, x, Const(height), z>>,
          <<nx, Const(0), nz, nx, Const(0), nz>>>>

\* The vertex loop running over range(segments): no ring at a full turn
RECURSIVE RingVertices_without_last_ring(_, _, _, _)
RingVertices_without_last_ring(i, segments, radius, height) ==
    IF i >= segments THEN <<<<>>, <<>>>>
    ELSE LET r == RingPair(i, segments, radius, height)
             rest == RingVertices_without_last_ring(i + 1, segments, radius,
                                                    height)
         IN  <<r[1] \o rest[1], r[2] \o rest[2]>>

\* for i in range(segments + 1), from ring i on
RECURSIVE RingVertices(_, _, _, _)
RingVertices(i, segments, radius, height) ==
    IF i >= segments + 1 THEN <<<<>>, <<>>>>
    ELSE LET r == RingPair(i, segments, radius, height)
             rest == RingVertices(i + 1, segments, radius, height)
         IN  <<r[1] \o rest[1], r[2] \o rest[2]>>

\* for i in range(segments) of lines 672-680 (and 764-769), from face i on
RECURSIVE SideIndices(_, _)
SideIndices(i, segments) ==
    IF i >= segments THEN <<>>
    ELSE LET base == i * 2
             next_base == ((i + 1) % (segments + 1)) * 2
         IN  <<base, base + 1, next_base,
               next_base, base + 1, next_base + 1>>
             \o SideIndices(i + 1, segments)

\* GeometryUtils.create_cylinder_mesh; the angle 2*pi*i/segments divides by
\* the segment count.
create_cylinder_mesh(radius, height, segments) ==
    IF segments = 0 THEN Raised("ZeroDivisionError")
    ELSE LET v == RingVertices(0, segments, radius, height)
         IN  Returned([vertices |-> v[1], normals |-> v[2],
                       indices |-> SideIndices(0, segments)])

\* The vertex (i, j) of the sphere, lines 695-705, as <<vertex, normal>>;
\* the normal is the position divided by the radius.
SphereVertex(i, j, lat_segments, lon_segments, radius) ==
    LET a == <<i, lat_segments, j, lon_segments>>
    IN  <<<<Coord("cos(lat)cos(lon)", a, radius),
            Coord("sin(lat)", a, radius),
            Coord("cos(lat)sin(lon)", a, radius)>>,
          <<Coord("cos(lat)cos(lon)", a, 1),
            Coord("sin(lat)", a, 1),
            Coord("cos(lat)sin(lon)", a, 1)>>>>

\* The two loops of lines 694-705, from vertex (i, j) on.
RECURSIVE SphereVertices(_, _, _, _, _)
SphereVertices(i, j, lat_segments, lon_segments, radius) ==
    IF i >= lat_segments + 1 THEN <<<<>>, <<>>>>
    ELSE IF j >= lon_segments + 1
    THEN SphereVertices(i + 1, 0, lat_segments, lon_segments, radius)
    ELSE LET v == SphereVertex(i, j, lat_segments, lon_segments, radius)
             rest == SphereVertices(i, j + 1, lat_segments, lon_segments,
                                    radius)
         IN  <<v[1] \o rest[1], v[2] \o rest[2]>>

\* The two loops of lines 708-716, from quad (i, j) on.
RECURSIVE SphereIndices(_, _, _, _)
SphereIndices(i, j, lat_segments, lon_segments) ==
    IF i >= lat_segments THEN <<>>
    ELSE IF j >= lon_segments
    THEN SphereIndices(i + 1, 0, lat_segments, lon_segments)
    ELSE LET first == i * (lon_segments + 1) + j
             second == first + lon_segments + 1
         IN  <<first, second, first + 1, second, second + 1, first + 1>>
             \o SphereIndices(i, j + 1, lat_segments, lon_segments)

\* GeometryUtils.create_sphere_mesh; both angles divide by a segment count.
create_sphere_mesh(radius, lat_segments, lon_segments) ==
    IF lat_segments = 0 \/ lon_segments = 0
    THEN Raised("ZeroDivisionError")
    ELSE LET v == SphereVertices(0, 0, lat_segments, lon_segments, radius)
         IN  Returned([vertices |-> v[1], normals |-> v[2],
                       indices |-> SphereIndices(0, 0, lat_segments,
                                                 lon_segments)])

\* for i in range(segments + 1) of lines 750-755: the head base ring, from
\* vertex i on, as <<vertices, normals>>.
RECURSIVE HeadBaseVertices(_, _, _, _)
HeadBaseVertices(i, segments, head_radius, head_start_y) ==
    IF i >= segments + 1 THEN <<<<>>, <<>>>>
    ELSE LET rest == HeadBaseVertices(i + 1, segments, head_radius,
                                      head_start_y)
         IN  <<<<Coord("cos", <<i, segments>>, head_radius),
                 Const(head_start_y),
                 Coord("sin", <<i, segments>>, head_radius)>> \o rest[1],
               <<Coord("cos", <<i, segments>>, 1), Const(0),
                 Coord("sin", <<i, segments>>, 1)>> \o rest[2]>>

\* The head index loop taking the vertex after the next one
RECURSIVE HeadIndices_skipping(_, _, _, _)
HeadIndices_skipping(i, segments, head_base_start, tip_index) ==
    IF i >= segments THEN <<>>
    ELSE LET current == head_base_start + i
             next_vertex == head_base_start + ((i + 2) % (segments + 1))
         IN  <<current, tip_index, next_vertex>>
             \o HeadIndices_skipping(i + 1, segments, head_base_start,
                                     tip_index)

\* for i in range(segments) of lines 772-776, from head triangle i on
RECURSIVE HeadIndices(_, _, _, _)
HeadIndices(i, segments, head_base_start, tip_index) ==
    IF i >= segments THEN <<>>
    ELSE LET current == head_base_start + i
             next_vertex == head_base_start + ((i + 1) % (segments + 1))
         IN  <<current, tip_index, next_vertex>>
             \o HeadIndices(i + 1, segments, head_base_start, tip_index)

\* GeometryUtils.create_arrow_mesh
create_arrow_mesh(shaft_radius, shaft_length, head_radius, head_length, segments) ==
    IF segments = 0 THEN Raised("ZeroDivisionError")
    ELSE LET shaft == RingVertices(0, segments, shaft_radius, shaft_length)
             head_start_y == shaft_length
             head_end_y == shaft_length + head_length
             head_base_start == VertexCount(shaft[1])
             head == HeadBaseVertices(0, segments, head_radius, head_start_y)
             tip_index == VertexCount(shaft[1] \o head[1])
             tip == <<Const(0), Const(head_end_y), Const(0)>>
             tip_normal == <<Const(0), Const(1), Const(0)>>
             shaft_segments == segments
         IN  Returned([vertices |-> shaft[1] \o head[1] \o tip,
                       normals |-> shaft[2] \o head[2] \o tip_normal,
                       indices |-> SideIndices(0, shaft_segments)
                                   \o HeadIndices(0, segments,
                                                  head_base_start,
                                                  tip_index)])

\* A 3x3 matrix of rationals is a record [num, den]: the integer matrix num
\* (a tuple of three rows) over the common positive denominator den.
Eye == <<<<1, 0, 0>>, <<0, 1, 0>>, <<0, 0, 1>>>>
MatScale(k, M) == [i \in 1..3 |-> [j \in 1..3 |-> k * M[i][j]]]
MatAdd(A, B) == [i \in 1..3 |-> [j \in 1..3 |-> A[i][j] + B[i][j]]]
\* np.dot on two matrices
MatMul(A, B) ==
    [i \in 1..3 |-> [j \in 1..3 |->
        A[i][1] * B[1][j] + A[i][2] * B[2][j] + A[i][3] * B[3][j]]]
\* np.outer
Outer(u, v) == [i \in 1..3 |-> [j \in 1..3 |-> u.c[i] * v.c[j]]]
\* np.dot on two vectors
Dot(a, b) == a.c[1] * b.c[1] + a.c[2] * b.c[2] + a.c[3] * b.c[3]
\* The matrix vx of lines 643-645.
Skew(v) ==
    <<<<0, -v.c[3], v.c[2]>>, <<v.c[3], 0, -v.c[1]>>, <<-v.c[2], v.c[1], 0>>>>
VNeg(a) == Vec(-a.c[1], -a.c[2], -a.c[3])

\* np.linalg.norm of a vector whose length is a whole number.
Norm(a) == CHOOSE n \in 0..NormSq(a) : n * n = NormSq(a)

\* np.allclose(a / na, b / nb) with numpy's rtol = 1e-5 and atol = 1e-8:
\* |a_k/na - b_k/nb| <= 1e-8 + 1e-5 * |b_k/nb| for each k, multiplied through
\* by 1e8 * na * nb.
AllClose(a, na, b, nb) ==
    \A k \in 1..3 :
        100000000 * Abs(a.c[k] * nb - b.c[k] * na)
            <= na * nb + 1000 * Abs(b.c[k]) * na

\* rotation_matrix_from_vectors with the sign of the half turn reversed
rotation_matrix_from_vectors_reflecting(vec1, vec2) ==
    LET n1 == Norm(vec1)
        n2 == Norm(vec2)
    IN  IF AllClose(vec1, n1, vec2, n2) THEN [num |-> Eye, den |-> 1]
        ELSE IF AllClose(vec1, n1, VNeg(vec2), n2)
        THEN LET perpendicular == IF 10 * Abs(vec1.c[1]) < 9 * n1
                                  THEN Vec(1, 0, 0) ELSE Vec(0, 1, 0)
                 v == Cross(vec1, perpendicular)
             IN  [num |-> MatAdd(MatScale(NormSq(v), Eye),
                                 MatScale(-2, Outer(v, v))),
                  den |-> NormSq(v)]
        ELSE LET v == Cross(vec1, vec2)
                 P == n1 * n2
                 D == P * NormSq(v)
             IN  [num |-> MatAdd(MatAdd(MatScale(D, Eye),
                                        MatScale(NormSq(v), Skew(v))),
                                 MatScale(P - Dot(vec1, vec2),
                                          MatMul(Skew(v), Skew(v)))),
                  den |-> D]

\* GeometryUtils.rotation_matrix_from_vectors in exact arithmetic.  With
\* n1 = |vec1|, n2 = |vec2| and P = n1 * n2, the code's v is
\* Cross(vec1, vec2) / P, its c is Dot(vec1, vec2) / P and its s * s is
\* NormSq(Cross(vec1, vec2)) / P^2; in the half-turn branch its unit v is
\* Cross(vec1, perpendicular) divided by its norm.
rotation_matrix_from_vectors(vec1, vec2) ==
    LET n1 == Norm(vec1)
        n2 == Norm(vec2)
    IN  IF AllClose(vec1, n1, vec2, n2) THEN [num |-> Eye, den |-> 1]
        ELSE IF AllClose(vec1, n1, VNeg(vec2), n2)
        THEN LET perpendicular == IF 10 * Abs(vec1.c[1]) < 9 * n1
                                  THEN Vec(1, 0, 0) ELSE Vec(0, 1, 0)
                 v == Cross(vec1, perpendicular)
             IN  [num |-> MatAdd(MatScale(2, Outer(v, v)),
                                 MatScale(-NormSq(v), Eye)),
                  den |-> NormSq(v)]
        ELSE LET v == Cross(vec1, vec2)
                 P == n1 * n2
                 D == P * NormSq(v)
             IN  [num |-> MatAdd(MatAdd(MatScale(D, Eye),
                                        MatScale(NormSq(v), Skew(v))),
                                 MatScale(P - Dot(vec1, vec2),
                                          MatMul(Skew(v), Skew(v)))),
                  den |-> D]

\* Largest coordinate of a vector handed to rotation_matrix_from_vectors.
MaxCoord == 2

\* Radii, heights and lengths of the meshes.
Sizes == {1, 2}
SegmentCounts == 0..MaxSegments

\* The non-zero vectors of whole-number length within the coordinate bound:
\* the signed axis vectors and their multiples, and the like of (1, 2, 2).
RotationInputs ==
    {v \in {Vec(x, y, z) : x, y, z \in -MaxCoord..MaxCoord} :
        /\ NormSq(v) > 0
        /\ \E n \in 1..(2 * MaxCoord) : n * n = NormSq(v)}

\* Clubhead samples and shaft directions handed to _calculate_face_normal;
\* (1, 0, 7) and (1, 0, 8) lie on either side of |z| = 0.99.
ClubheadSamples == {Vec(0, 0, 10), Vec(4, 0, 10), Vec(0, 3, 10), NaNVec}
ShaftDirections ==
    {Vec(0, 0, 1), Vec(0, 0, -1), Vec(1, 0, 0), Vec(0, 1, 0), Vec(1, 1, 0),
     Vec(1, 0, 7), Vec(1, 0, 8), Vec(1, 2, 2), Vec(0, -1, 10)}

\* Nothing has been called on the instance yet.
Fresh == last.op = "__init__"

\* A call of a function that reads and writes no attribute.
PureCall(op, arg, r) ==
    /\ last' = Call(op, arg)
    /\ ret' = r
    /\ UNCHANGED <<rows, num_frames, current_filter, dynamics_cache,
                   raw_data_cache, config, filter_params, calls, held>>

CreateCylinderMesh ==
    /\ Fresh
    /\ \E radius \in Sizes, height \in Sizes, segments \in SegmentCounts :
           PureCall("create_cylinder_mesh", <<radius, height, segments>>,
                    create_cylinder_mesh(radius, height, segments))

CreateSphereMesh ==
    /\ Fresh
    /\ \E radius \in Sizes, lat_segments \in SegmentCounts,
          lon_segments \in SegmentCounts :
           PureCall("create_sphere_mesh", <<radius, lat_segments, lon_segments>>,
                    create_sphere_mesh(radius, lat_segments, lon_segments))

CreateArrowMesh ==
    /\ Fresh
    /\ \E shaft_length \in Sizes, segments \in SegmentCounts :
           PureCall("create_arrow_mesh", <<1, shaft_length, 2, 1, segments>>,
                    create_arrow_mesh(1, shaft_length, 2, 1, segments))

RotationMatrixFromVectors ==
    /\ Fresh
    /\ \E vec1 \in RotationInputs, vec2 \in RotationInputs :
           PureCall("rotation_matrix_from_vectors", <<vec1, vec2>>,
                    Returned(rotation_matrix_from_vectors(vec1, vec2)))

CalculateFaceNormal ==
    /\ Fresh
    /\ \E current_clubhead \in ClubheadSamples,
          previous_clubhead \in ClubheadSamples,
          shaft \in ShaftDirections :
           PureCall("_calculate_face_normal",
                    <<current_clubhead, previous_clubhead, shaft>>,
                    Returned(calculate_face_normal(current_clubhead,
                                                   previous_clubhead, shaft)))

ProcessRawFrame ==
    /\ Fresh
    /\ \E frame_idx \in 0..(num_frames - 1) :
           PureCall("_process_raw_frame", frame_idx,
                    Returned(process_raw_frame(frame_idx)))

NextGeometry ==
    \/ CreateCylinderMesh
    \/ CreateSphereMesh
    \/ CreateArrowMesh
    \/ RotationMatrixFromVectors
    \/ CalculateFaceNormal
    \/ ProcessRawFrame

\* The functions that compute from their arguments alone: each behaviour
\* makes one call, on inputs drawn from the sets above.
SpecGeometry == Init /\ [][NextGeometry]_vars

\* ------------------------------------------------------------------ claims
Restrict(f, S) == [x \in S |-> f[x]]

\* The last call was get_frame_data.
FrameRequested == last.op = "get_frame_data"

\* The FrameData a get_frame_data call hands out for index i is the object
\* the raw cache holds for i.
SnapshotObject(i) == raw_data_cache[i]

\* C1: get_frame_data(i) returns a snapshot for every integer i and never
\* ends in an error; the snapshot is that of the clamped index, also when
\* its butt, clubhead or midpoint is non-finite.
C1_AlwaysReturnsSnapshot ==
    FrameRequested =>
        /\ ret.kind = "returned"
        /\ ret.value.frame_idx = clamp(last.arg)

\* C2: for an index i outside [0, N-1], get_frame_data(i) returns what
\* get_frame_data(clamp(i)) returns: the snapshot of frame 0 for i < 0 and
\* of frame N-1 for i > N-1, under the same filter.
C2_OutOfRangeIsClamped ==
    (FrameRequested /\ (last.arg < 0 \/ last.arg > num_frames - 1)) =>
        /\ ret.kind = "returned"
        /\ ret.value.frame_idx = (IF last.arg < 0 THEN 0 ELSE num_frames - 1)
        /\ ret = get_frame_data(Self, clamp(last.arg))[2]

\* C3: a get_frame_data call that follows a set_filter which left no cache
\* entry for the current filter (as set_filter(A) after set_filter(B) does)
\* invokes the dynamics function again, and the calculated force and torque
\* it returns are those of a fresh computation under the current filter.
C3_SwitchBackRecomputes ==
    [][(/\ last.op = "set_filter"
        /\ last'.op = "get_frame_data"
        /\ current_filter \notin DOMAIN dynamics_cache)
       => (/\ calls' = calls + 1
           /\ ret'.kind = "returned"
           /\ dynamics_cache'[current_filter]
                 = dynamics_for_filter(current_filter)
           /\ ret'.value.forces["calculated"] =
                 dynamics_for_filter(current_filter).force[clamp(last'.arg)]
           /\ ret'.value.torques["calculated"] =
                 dynamics_for_filter(current_filter).torque[clamp(last'.arg)])
      ]_vars

\* C4: in every reachable state the dynamics cache holds at most one key,
\* and that key, when present, is the current filter name.
C4_SingleKeyIsCurrentFilter ==
    /\ Cardinality(DOMAIN dynamics_cache) <= 1
    /\ \A k \in DOMAIN dynamics_cache : k = current_filter

\* C4 witness: dynamics were computed, discarded by a switch to another
\* filter and computed again; the cache holds the entry of that filter.
C4_Witness ==
    /\ calls = 2
    /\ current_filter = "Savitzky-Golay"
    /\ DOMAIN dynamics_cache = {"Savitzky-Golay"}
    /\ last.op = "_calculate_dynamics_for_filter"

\* C5: set_filter(name) with name equal to the current filter changes
\* neither the current filter nor the dynamics cache nor the raw-frame
\* cache, and a get_frame_data call that finds the entry of the current
\* filter does not invoke the dynamics function.
C5_SameFilterIsNoOp ==
    [][/\ (last'.op = "set_filter" /\ last'.arg = current_filter)
          => /\ current_filter' = current_filter
             /\ dynamics_cache' = dynamics_cache
             /\ raw_data_cache' = raw_data_cache
             /\ calls' = calls
       /\ (last'.op = "get_frame_data"
             /\ current_filter \in DOMAIN dynamics_cache)
          => /\ calls' = calls
             /\ dynamics_cache' = dynamics_cache
      ]_vars

\* C5 witness: set_filter was called with the current filter's name while
\* the cache held that filter's computed entry (a call with another name
\* leaves the cache empty).
C5_Witness ==
    /\ last.op = "set_filter"
    /\ last.arg = current_filter
    /\ current_filter \in DOMAIN dynamics_cache
    /\ calls >= 1

\* C6: set_filter(name) with a name outside the known filters is rejected:
\* the call reports an error and the unknown name never becomes the current
\* filter.
C6_UnknownFilterRejected ==
    /\ current_filter \in FilterNames
    /\ (last.op = "set_filter" /\ last.arg \notin FilterNames)
          => ret.kind = "raised"

\* C7: a get_frame_data call invokes the dynamics function exactly when the
\* cache holds no entry for the current filter, and leaves an entry with
\* one force and one torque per frame of the timeline.
C7_ComputedOnceOnFirstAccess ==
    [][last'.op = "get_frame_data"
       => (/\ calls' = IF current_filter \in DOMAIN dynamics_cache
                       THEN calls ELSE calls + 1
           /\ current_filter \in DOMAIN dynamics_cache'
           /\ DOMAIN dynamics_cache'[current_filter].force
                 = 0..(num_frames - 1)
           /\ DOMAIN dynamics_cache'[current_filter].torque
                 = 0..(num_frames - 1))
      ]_vars

\* C8: the snapshot of get_frame_data(i) carries the raw frame of index i
\* (points, shaft fields, face normal, the three datasets' forces and
\* torques) whatever the filter, taken from a raw-cache entry that filter
\* switches leave in place, and its "calculated" force and torque are the
\* current filter's dynamics at i.
C8_FilterOnlyChangesCalculated ==
    FrameRequested =>
        LET idx == clamp(last.arg)
        IN  /\ ret.kind = "returned"
            /\ idx \in DOMAIN raw_data_cache
            /\ [ret.value EXCEPT
                   !.forces = Restrict(@, DatasetNames),
                   !.torques = Restrict(@, DatasetNames)]
                 = process_raw_frame(idx)
            /\ ret.value.forces["calculated"] =
                  dynamics_for_filter(current_filter).force[idx]
            /\ ret.value.torques["calculated"] =
                  dynamics_for_filter(current_filter).torque[idx]

\* C9: get_frame_data(i) hands out a snapshot built for the current filter,
\* and no later call changes a snapshot already handed out: it keeps every
\* field, its calculated force and torque included, as returned.
C9_SnapshotImmutable ==
    /\ FrameRequested =>
          /\ ret.kind = "returned"
          /\ clamp(last.arg) \in DOMAIN held
    /\ \A i \in DOMAIN held : SnapshotObject(i) = held[i].value

\* C10: set_vector_visibility and set_vector_scale, for every argument,
\* leave the raw-frame cache, the dynamics cache, the current filter and
\* the filter parameters as they are and invoke no dynamics computation, so
\* that get_frame_data ends after the call as it would have before it.
C10_SettersOnlyTouchConfig ==
    [][last'.op \in {"set_vector_visibility", "set_vector_scale"}
       => (/\ raw_data_cache' = raw_data_cache
           /\ dynamics_cache' = dynamics_cache
           /\ current_filter' = current_filter
           /\ filter_params' = filter_params
           /\ calls' = calls
           /\ \A i \in Indices :
                 /\ get_frame_data(Self, i)[2]' = get_frame_data(Self, i)[2]
                 /\ get_frame_data(Self, i)[1].calls' =
                       get_frame_data(Self, i)[1].calls)
      ]_vars

\* C10 witness: set_vector_scale("force", 2) created force_vector_scale on
\* the RenderConfig while the dynamics cache held the current filter's
\* entry.
C10_Witness ==
    /\ last.op = "set_vector_scale"
    /\ last.arg[1] = "force"
    /\ "force_vector_scale" \in DOMAIN config
    /\ current_filter \in DOMAIN dynamics_cache

\* The smallest of the three row counts.
MinRowCount ==
    CHOOSE m \in {rows[d] : d \in DatasetNames} :
        \A d \in DatasetNames : m <= rows[d]

\* C11: the timeline length N (num_frames, the bound get_frame_data clamps
\* to, and the length of the dynamics timeline) is the minimum of the three
\* row counts, so that every index get_frame_data accepts has a row in all
\* three datasets.
C11_TimelineIsMinimum ==
    /\ num_frames = MinRowCount
    /\ \A i \in Indices : \A d \in DatasetNames : clamp(i) < rows[d]
    /\ \A f \in DOMAIN dynamics_cache :
          DOMAIN dynamics_cache[f].force = 0..(MinRowCount - 1)

MeshReturned(op) == last.op = op /\ ret.kind = "returned"

\* C13: for every n >= 1, create_cylinder_mesh(r, h, n) gives 2(n+1)
\* vertices and 2n triangles (6n indices); for every lat, lon >= 1,
\* create_sphere_mesh(r, lat, lon) gives (lat+1)(lon+1) vertices and
\* 2*lat*lon triangles; the normals array is as long as the vertices array.
C13_MeshCounts ==
    /\ (last.op = "create_cylinder_mesh" /\ last.arg[3] >= 1) =>
          LET n == last.arg[3]
          IN  /\ ret.kind = "returned"
              /\ Len(ret.value.vertices) = 3 * 2 * (n + 1)
              /\ Len(ret.value.indices) = 3 * 2 * n
              /\ Len(ret.value.normals) = Len(ret.value.vertices)
    /\ (last.op = "create_sphere_mesh" /\ last.arg[2] >= 1
          /\ last.arg[3] >= 1) =>
          LET lat == last.arg[2]
              lon == last.arg[3]
          IN  /\ ret.kind = "returned"
              /\ Len(ret.value.vertices) = 3 * (lat + 1) * (lon + 1)
              /\ Len(ret.value.indices) = 3 * 2 * lat * lon
              /\ Len(ret.value.normals) = Len(ret.value.vertices)

\* C13 witness: a sphere of 2 by 3 segments was built, with its 12 vertices.
C13_Witness ==
    /\ MeshReturned("create_sphere_mesh")
    /\ last.arg[2] = 2
    /\ last.arg[3] = 3
    /\ VertexCount(ret.value.vertices) = 12

\* C14: in create_cylinder_mesh(r, h, n) the last side face, i = n-1, takes
\* its next-ring vertices from ring 0: its two triangles are
\* (2(n-1), 2(n-1)+1, 0) and (0, 2(n-1)+1, 1).
C14_LastFaceWrapsToRingZero ==
    MeshReturned("create_cylinder_mesh") =>
        LET n == last.arg[3]
            base == 2 * (n - 1)
        IN  SubSeq(ret.value.indices, 6 * (n - 1) + 1, 6 * n)
               = <<base, base + 1, 0, 0, base + 1, 1>>

\* C18: every index of a cylinder, sphere or arrow mesh of one or more
\* segments refers to an existing vertex and the index count is a multiple
\* of 3; the arrow has 3n+4 vertices and 3n triangles, and each of its n
\* head triangles holds the tip index and two consecutive vertices of the
\* head base ring.
C18_IndicesReferToVertices ==
    /\ \A op \in {"create_cylinder_mesh", "create_sphere_mesh",
                  "create_arrow_mesh"} :
          MeshReturned(op) =>
              /\ \A k \in 1..Len(ret.value.indices) :
                    /\ 0 <= ret.value.indices[k]
                    /\ ret.value.indices[k] < VertexCount(ret.value.vertices)
              /\ Len(ret.value.indices) % 3 = 0
    /\ (last.op = "create_arrow_mesh" /\ last.arg[5] >= 1) =>
          LET n == last.arg[5]
              ring == (2 * (n + 1))..(3 * n + 2)
              tip == 3 * n + 3
              idx == ret.value.indices
          IN  /\ ret.kind = "returned"
              /\ Len(ret.value.vertices) = 3 * (3 * n + 4)
              /\ Len(idx) = 3 * 3 * n
              /\ \A t \in 0..(n - 1) :
                    LET k == 6 * n + 3 * t
                    IN  /\ idx[k + 2] = tip
                        /\ idx[k + 1] \in ring
                        /\ idx[k + 3] \in ring
                        /\ idx[k + 3] = idx[k + 1] + 1

\* C18 witness: an arrow of 3 segments was built; its last head triangle
\* ends on the last vertex of the head base ring.
C18_Witness ==
    /\ MeshReturned("create_arrow_mesh")
    /\ last.arg[5] = 3
    /\ SubSeq(ret.value.indices, 25, 27) = <<10, 12, 11>>

\* Matrix times vector, and a vector times a whole number.
MatVec(M, a) ==
    [i \in 1..3 |-> M[i][1] * a.c[1] + M[i][2] * a.c[2] + M[i][3] * a.c[3]]
Times(k, t) == [i \in 1..3 |-> k * t[i]]

\* C15: for non-zero v1, v2 the matrix of rotation_matrix_from_vectors(v1,
\* v2) takes v1/|v1| to v2/|v2|; for v2 = v1 it is the identity matrix, and
\* for v2 = -v1 it takes v1 to -v1.
C15_RotationAligns ==
    last.op = "rotation_matrix_from_vectors" =>
        LET v1 == last.arg[1]
            v2 == last.arg[2]
            R == ret.value
        IN  /\ R.den > 0
            \* R * (v1 / |v1|) = v2 / |v2|, cleared of denominators
            /\ Times(Norm(v2), MatVec(R.num, v1))
                  = Times(R.den * Norm(v1), v2.c)
            /\ v2 = v1 => R.num = MatScale(R.den, Eye)
            /\ v2 = VNeg(v1) => MatVec(R.num, v1) = Times(-R.den, v1.c)

\* C15 witness: the half turn of (-1, 0, 0) onto (1, 0, 0), taken about the
\* axis found with world Y, and so the matrix diag(-1, -1, 1).
C15_Witness ==
    /\ last.op = "rotation_matrix_from_vectors"
    /\ last.arg = <<Vec(-1, 0, 0), Vec(1, 0, 0)>>
    /\ ret.value.den = 1
    /\ ret.value.num = <<<<-1, 0, 0>>, <<0, -1, 0>>, <<0, 0, 1>>>>

\* C16: with the previous clubhead equal to the current one the face normal
\* is the fallback, (-s.y, s.x, 0) normalized when |s.z| < 0.99 for the
\* shaft direction s and (1, 0, 0) otherwise; frame 0, which has no previous
\* sample, keeps the default (1, 0, 0).
C16_ZeroVelocityFallsBack ==
    /\ (/\ last.op = "_calculate_face_normal"
        /\ last.arg[1] = last.arg[2]
        /\ last.arg[1].fin) =>
          LET s == last.arg[3]
          IN  ret.value =
                 IF 10000 * s.c[3] * s.c[3] < 9801 * NormSq(s)
                 THEN Dir(Vec(-s.c[2], s.c[1], 0))
                 ELSE Vec(1, 0, 0)
    /\ (last.op = "_process_raw_frame" /\ last.arg = 0) =>
          ret.value.face_normal = Vec(1, 0, 0)

\* C16 witness: zero velocity under the shaft direction (1, 0, 7), whose
\* vertical component is just below 0.99, gave the horizontal perpendicular.
C16_Witness ==
    /\ last.op = "_calculate_face_normal"
    /\ last.arg = <<Vec(4, 0, 10), Vec(4, 0, 10), Vec(1, 0, 7)>>
    /\ ret.value = Vec(0, 1, 0)

\* Repeated get_frame_data calls for i, i+1, ..., e on the instance self:
\* <<instance after, the outcomes in order>>.
RECURSIVE RepeatedGetFrame(_, _, _)
RepeatedGetFrame(self, i, e) ==
    IF i > e THEN <<self, <<>>>>
    ELSE LET c == get_frame_data(self, i)
             rest == RepeatedGetFrame(c[1], i + 1, e)
         IN  <<rest[1], <<c[2]>> \o rest[2]>>

\* C17: get_frame_range(start, end) returns, in ascending order, the results
\* of get_frame_data(k) for every k from clamp(start) to clamp(end), both
\* bounds clamped into [0, N-1] (so that a start above N-1 or an end below 0
\* gives the snapshot of the nearest frame), and leaves the instance as
\* those repeated calls leave it.
C17_RangeIsRepeatedGetFrame ==
    [][last'.op = "get_frame_range" =>
         LET s == clamp(last'.arg[1])
             e == clamp(last'.arg[2])
             calls_made == RepeatedGetFrame(Self, s, e)
         IN  /\ ret'.kind = "returned"
             /\ Len(ret'.value) = Len(calls_made[2])
             /\ \A k \in 1..Len(calls_made[2]) :
                   Returned(ret'.value[k]) = calls_made[2][k]
             /\ Self' = calls_made[1]
      ]_vars

=============================================================================
